---- MODULE Spec2Model ----
(***************************************************************************)
(* State-machine model of api/app/game_controller.py (GameController).     *)
(* Every coroutine is cut at its awaits: one action per store operation,   *)
(* settlement call or synchronous segment that touches shared in-process   *)
(* state (registry, broker channel, rooms).  Synchronous segments that     *)
(* only touch the coroutine's local copy of the game are folded into the   *)
(* operation that follows them, and the call of a handler is folded into   *)
(* its first store operation.  Each connection has one client handler in   *)
(* flight at a time, each game one handle_end_of_round.  The external      *)
(* services answer: failures of the store, the broker and the contract     *)
(* are not injected.                                                       *)
(***************************************************************************)
EXTENDS Integers, Sequences, FiniteSets, TLC

(* ---------------- bounds of the model ---------------- *)
MaxGames == 1
MaxPlayers == 3
MaxGamesAdmit == 3
MaxOps == 3
MaxEvents == 2
MaxScore == 1

(* ---------------- program constants (app.constants) ---------------- *)
CONCURRENT_GAME_LIMIT == 2
VALID_WAGER_RANGE == <<1, 100>>
VALID_TIME_CONTROLS == {3, 5}
VALID_N_ROUNDS_RANGE == <<1, 2>>
MILLISECONDS_PER_MINUTE == 60000
MAX_EMIT_RETRIES == 3
BROADCAST_KEY == "all"

(* ---------------- value sets ---------------- *)
Sids == {"a", "b"}
NoWallet == "-"
WalletOf(sid) == "w_" \o sid
NoScore == -1
NoGid == 0
Gids == 1..MaxGamesAdmit

Game(players, wager, wallets, tc, score, n, r, trw, trb, fin) ==
  [players |-> players, wager |-> wager, player_wallet_addrs |-> wallets,
   time_control |-> tc, match_score |-> score, n_rounds |-> n, round |-> r,
   tr_white |-> trw, tr_black |-> trb, finished |-> fin]

NoGame ==
  Game(<<>>, 0, [s \in Sids |-> NoWallet], 0, [s \in Sids |-> NoScore], 0, 0, 0, 0, FALSE)


Keys(m, none) == {s \in Sids : m[s] # none}

RangeOf(seq) == {seq[i] : i \in 1..Len(seq)}

IndexOf(seq, x) == CHOOSE i \in 1..Len(seq) : seq[i] = x /\ \A j \in 1..(i - 1) : seq[j] # x

RemoveFirst(seq, x) ==
  LET i == IndexOf(seq, x)
  IN  [j \in 1..(Len(seq) - 1) |-> IF j < i THEN seq[j] ELSE seq[j + 1]]

Reverse(seq) == [i \in 1..Len(seq) |-> seq[Len(seq) + 1 - i]]

Shuffles(seq) ==
  LET n == Len(seq)
      Bij == {f \in [1..n -> 1..n] : \A i, j \in 1..n : f[i] = f[j] => i = j}
  IN  {[i \in 1..n |-> seq[f[i]]] : f \in Bij}

InRange(x, rng) == x >= rng[1] /\ x < rng[2] + 1

opponent_ind(i) == IF i = 0 THEN 1 ELSE 0

(* ---------------- state ---------------- *)
VARIABLES
  store,      \* redis: gid -> Game snapshot, NoGame when the key is absent
  gr_gid,     \* GameRegistry: sid -> gid (NoGid when there is no record)
  gr_ctags,   \* GameRegistry: gid -> number of consumer tags per queue
  consumers,  \* broker: gid -> number of active consumers per queue
  exchange,   \* broker: gid -> "none" | "declared" | "deleted"
  exDeclares, \* broker: gid -> number of exchange_declare calls
  exDeletes,  \* broker: gid -> number of exchange_delete calls
  queues,     \* broker: gid -> sids whose queue was declared
  bindings,   \* broker: gid -> set of <<sid, routing key>>
  rooms,      \* socket.io: gid -> sids in the room
  conn,       \* per connection: the client handler in flight
  heor,       \* per game: the handle_end_of_round coroutine in flight
  live,       \* per connection: "live" until its disconnect notification
  ops,        \* number of client requests that started a handler so far
  nextGid,    \* number of game ids generated by uuid4 so far
  budget,     \* number of game ids this run may generate
  pub,        \* events published on the broker by the last step
  call,       \* settlement call issued by the last step
  ret,        \* the handler that returned or raised in the last step, and how
  calls,      \* gid -> number of settlement calls issued so far
  ended,      \* gid -> a "matchEnded" event has been published
  joined,     \* gid -> connections that were ever put into players
  sent,       \* gid -> per connection, the colour of the last "start" event sent to it
  emits       \* delivery wrapper: per broker message, its chain of emit tasks

storeVars == <<store>>
regVars == <<gr_gid, gr_ctags>>
brokerVars == <<consumers, exchange, exDeclares, exDeletes, queues, bindings>>
vars == <<store, gr_gid, gr_ctags, consumers, exchange, exDeclares, exDeletes,
          queues, bindings, rooms, conn, heor, live, ops, nextGid, budget, pub, call,
          ret, calls, ended, joined, sent, emits>>

gameVars == <<store, gr_gid, gr_ctags, consumers, exchange, exDeclares, exDeletes,
              queues, bindings, rooms, conn, heor, live, ops, nextGid, budget, pub, call,
              calls, ended, joined, sent>>

deliveryVars == <<emits>>

Events == 1..MaxEvents

\* a message not yet consumed: no emit task exists for it
NoEmit ==
  [state |-> "none", to |-> "-", attempts |-> 0, tasks |-> 0, failed |-> 0]

Task(op, pc, gid, game, n, w) ==
  [op |-> op, pc |-> pc, gid |-> gid, game |-> game, n |-> n, w |-> w]

Idle == Task("idle", "idle", NoGid, NoGame, 0, NoWallet)

NoRet == [who |-> "-", res |-> "-"]

Ret(who, res) == [who |-> who, res |-> res]

None == -1
NoIndex == -2
NoScores == [s \in Sids |-> NoScore]

Heor(pc, game, match_score, overall_winner) ==
  [pc |-> pc, game |-> game, match_score |-> match_score, overall_winner |-> overall_winner]

NoHeor == Heor("idle", NoGame, NoScores, None)

NoColours == [s \in Sids |-> "-"]

NoCall == [gid |-> NoGid, kind |-> "none", addr |-> NoWallet, by |-> "-"]

\* an Event on the game's exchange: routing key, and the fields of its data
\* that the handlers fill in ("-", NoIndex and NoScores where a field is absent)
Event(gid, name, to, winner, outcome, matchScore, colour, r) ==
  [gid |-> gid, name |-> name, to |-> to, winner |-> winner, outcome |-> outcome,
   matchScore |-> matchScore, colour |-> colour, round |-> r]

Quiet == pub' = <<>> /\ call' = NoCall

InitWith(b) ==
  /\ store = [g \in Gids |-> NoGame]
  /\ gr_gid = [s \in Sids |-> NoGid]
  /\ gr_ctags = [g \in Gids |-> [s \in Sids |-> 0]]
  /\ consumers = [g \in Gids |-> [s \in Sids |-> 0]]
  /\ exchange = [g \in Gids |-> "none"]
  /\ exDeclares = [g \in Gids |-> 0]
  /\ exDeletes = [g \in Gids |-> 0]
  /\ queues = [g \in Gids |-> {}]
  /\ bindings = [g \in Gids |-> {}]
  /\ rooms = [g \in Gids |-> {}]
  /\ conn = [s \in Sids |-> Idle]
  /\ heor = [g \in Gids |-> NoHeor]
  /\ live = [s \in Sids |-> "live"]
  /\ ops = 0
  /\ nextGid = 0
  /\ budget = b
  /\ pub = <<>>
  /\ call = NoCall
  /\ ret = NoRet
  /\ calls = [g \in Gids |-> 0]
  /\ ended = [g \in Gids |-> FALSE]
  /\ joined = [g \in Gids |-> {}]
  /\ sent = [g \in Gids |-> NoColours]
  /\ emits = [e \in Events |-> NoEmit]

Init == InitWith(MaxGames)

(* ---------------- inputs ---------------- *)
TimeControls == {3}
Wagers == {50}
Rounds == {2}
Results == {0, 1}

(* ---------------- helpers shared by the handlers ---------------- *)
\* a connected client with no handler in flight sends a request
Request(sid) == live[sid] = "live" /\ conn[sid].op = "idle"

\* the request gets past its first await and a handler is now in flight
Started == ops < MaxOps /\ ops' = ops + 1

\* end of a coroutine: the slot is free again and remembers how it ended
Finish(sid, res) == conn' = [conn EXCEPT ![sid] = Idle] /\ ret' = Ret(sid, res)

Goto(sid, pc) == conn' = [conn EXCEPT ![sid].pc = pc] /\ ret' = NoRet

HeorFinish(gid, res) == heor' = [heor EXCEPT ![gid] = NoHeor] /\ ret' = Ret("heor", res)

HeorGoto(gid, pc) == heor' = [heor EXCEPT ![gid].pc = pc] /\ ret' = NoRet

\* _init_listener: basic_consume on the player's queue, ctag kept in the registry
InitListener(ct, gid, sid) == [ct EXCEPT ![gid][sid] = @ + 1]

(* ---------------- create ---------------- *)
\* a create that opens a score entry for every connection, not only its own
NewGame_ScoresForAll(sid, tc, wager, w, n) ==
  Game(<<sid>>, wager, [s \in Sids |-> IF s = sid THEN w ELSE NoWallet], tc,
       [s \in Sids |-> 0], n, 1,
       tc * MILLISECONDS_PER_MINUTE, tc * MILLISECONDS_PER_MINUTE, FALSE)

\* the Game object that create builds for a request that passes validation
NewGame(sid, tc, wager, w, n) ==
  Game(<<sid>>, wager, [s \in Sids |-> IF s = sid THEN w ELSE NoWallet], tc,
       [s \in Sids |-> IF s = sid THEN 0 ELSE NoScore], n, 1,
       tc * MILLISECONDS_PER_MINUTE, tc * MILLISECONDS_PER_MINUTE, FALSE)

\* a client calls create(sid, time_control, wager, wallet_addr, n_rounds);
\* _validate_game_creation counts the game:* keys
create_scan(sid, tc, wager, w, n) ==
  /\ Request(sid)
  /\ conn' = [conn EXCEPT ![sid] =
       Task("create", "validate", NoGid, NewGame(sid, tc, wager, w, n),
            Cardinality({g \in Gids : store[g] # NoGame}), w)]
  /\ ret' = NoRet
  /\ Started
  /\ Quiet
  /\ UNCHANGED <<storeVars, regVars, brokerVars, rooms, heor, live, nextGid, budget, calls, ended, joined>>
  /\ UNCHANGED deliveryVars
  /\ UNCHANGED sent

\* a validation whose wager range leaves out its upper end
ValidationError_WagerExclusive(games_inpr, time_control, wager, n_rounds) ==
  IF games_inpr >= CONCURRENT_GAME_LIMIT THEN "capacity"
  ELSE IF ~(wager >= VALID_WAGER_RANGE[1] /\ wager < VALID_WAGER_RANGE[2]) THEN "wager"
  ELSE IF time_control \notin VALID_TIME_CONTROLS THEN "time_control"
  ELSE IF ~InRange(n_rounds, VALID_N_ROUNDS_RANGE) THEN "n_rounds"
  ELSE "ok"

\* the checks of _validate_game_creation, in their order: the error raised, or "ok"
ValidationError(games_inpr, time_control, wager, n_rounds) ==
  IF games_inpr >= CONCURRENT_GAME_LIMIT THEN "capacity"
  ELSE IF ~InRange(wager, VALID_WAGER_RANGE) THEN "wager"
  ELSE IF time_control \notin VALID_TIME_CONTROLS THEN "time_control"
  ELSE IF ~InRange(n_rounds, VALID_N_ROUNDS_RANGE) THEN "n_rounds"
  ELSE "ok"

\* the checks of _validate_game_creation, then uuid4, enter_room, registry record
create_validate(sid) ==
  /\ conn[sid].op = "create" /\ conn[sid].pc = "validate"
  /\ LET t == conn[sid]
         err == ValidationError(t.n, t.game.time_control, t.game.wager, t.game.n_rounds)
     IN  IF err # "ok"
         THEN /\ Finish(sid, err)
              /\ UNCHANGED <<rooms, gr_gid, nextGid, joined>>
         ELSE /\ nextGid < budget
              /\ nextGid' = nextGid + 1
              /\ rooms' = [rooms EXCEPT ![nextGid + 1] = @ \cup {sid}]
              /\ gr_gid' = [gr_gid EXCEPT ![sid] = nextGid + 1]
              /\ joined' = [joined EXCEPT ![nextGid + 1] = @ \cup {sid}]
              /\ conn' = [conn EXCEPT ![sid].gid = nextGid + 1, ![sid].pc = "save"]
              /\ ret' = NoRet
  /\ Quiet
  /\ UNCHANGED <<storeVars, gr_ctags, brokerVars, heor, live, ops, budget, calls, ended>>
  /\ UNCHANGED deliveryVars
  /\ UNCHANGED sent

\* save_game(gid, game, sid)
create_save(sid) ==
  /\ conn[sid].op = "create" /\ conn[sid].pc = "save"
  /\ store' = [store EXCEPT ![conn[sid].gid] = conn[sid].game]
  /\ Goto(sid, "topology")
  /\ Quiet
  /\ UNCHANGED <<regVars, brokerVars, rooms, heor, live, ops, nextGid, budget, calls, ended, joined>>
  /\ UNCHANGED deliveryVars
  /\ UNCHANGED sent

\* emit "gameId", then exchange_declare, queue_declare, two queue_bind, _init_listener
create_topology(sid) ==
  /\ conn[sid].op = "create" /\ conn[sid].pc = "topology"
  /\ LET gid == conn[sid].gid
     IN  /\ exchange' = [exchange EXCEPT ![gid] = "declared"]
         /\ exDeclares' = [exDeclares EXCEPT ![gid] = @ + 1]
         /\ queues' = [queues EXCEPT ![gid] = @ \cup {sid}]
         /\ bindings' = [bindings EXCEPT ![gid] = @ \cup {<<sid, sid>>, <<sid, BROADCAST_KEY>>}]
         /\ consumers' = InitListener(consumers, gid, sid)
         /\ gr_ctags' = InitListener(gr_ctags, gid, sid)
  /\ Finish(sid, "ok")
  /\ Quiet
  /\ UNCHANGED <<storeVars, gr_gid, exDeletes, rooms, heor, live, ops, nextGid, budget, calls, ended, joined>>
  /\ UNCHANGED deliveryVars
  /\ UNCHANGED sent

(* ---------------- get_game_details ---------------- *)
\* a game code as a client sends it: the number of characters left once the
\* decorations uuid.UUID strips are gone, whether all of them are hex digits,
\* and the game whose id it spells when it is one
GidTexts == [digits : {31, 32}, hex : BOOLEAN, key : Gids]

\* the key the store finds under a code: no key is spelled by a non-UUID
KeyOf(text) == IF text.digits = 32 /\ text.hex THEN text.key ELSE NoGid

\* a validation that only looks at the characters, not at their number
ValidJoiningGid_AnyLength(text) == text.hex

\* _validate_joining_gid: uuid.UUID(gid) parses 32 hex digits, else ValueError
ValidJoiningGid(text) == text.digits = 32 /\ text.hex

\* a client calls get_game_details(sid, gid): _validate_joining_gid raises
\* "Invalid game code" before the first await
get_game_details_validate(sid, text) ==
  /\ Request(sid)
  /\ IF ~ValidJoiningGid(text)
     THEN Finish(sid, "invalid_code") /\ UNCHANGED ops
     ELSE /\ conn' = [conn EXCEPT ![sid] = Task("details", "load", KeyOf(text), NoGame, 0, NoWallet)]
          /\ ret' = NoRet
          /\ Started
  /\ Quiet
  /\ UNCHANGED <<storeVars, regVars, brokerVars, rooms, heor, live, nextGid, budget, calls, ended, joined>>
  /\ UNCHANGED deliveryVars
  /\ UNCHANGED sent

\* get_game_by_gid, the test of len(players), emit "gameInfo" to the caller
get_game_details_load(sid) ==
  /\ conn[sid].op = "details" /\ conn[sid].pc = "load"
  /\ LET game == IF conn[sid].gid = NoGid THEN NoGame ELSE store[conn[sid].gid]
     IN  IF game = NoGame THEN Finish(sid, "not_found")
         ELSE IF Len(game.players) >= 2 THEN Finish(sid, "two_players")
         ELSE Finish(sid, "gameInfo")
  /\ Quiet
  /\ UNCHANGED <<storeVars, regVars, brokerVars, rooms, heor, live, ops, nextGid, budget, calls, ended, joined>>
  /\ UNCHANGED deliveryVars
  /\ UNCHANGED sent

(* ---------------- accept_game ---------------- *)
\* the game ids a client sends: those generated so far and one that never was
GidsToTry == {g \in Gids : g <= nextGid + 1}

\* a client calls accept_game(sid, gid, wallet_addr);
\* get_game_by_gid raises "Game not found" when the key is absent
accept_game_load(sid, gid, w) ==
  /\ Request(sid)
  /\ gid \in GidsToTry
  /\ IF store[gid] = NoGame
     THEN Finish(sid, "not_found") /\ UNCHANGED ops
     ELSE /\ Len(store[gid].players) < MaxPlayers
          /\ conn' = [conn EXCEPT ![sid] = Task("accept", "join", gid, store[gid], 0, w)]
          /\ ret' = NoRet
          /\ Started
  /\ Quiet
  /\ UNCHANGED <<storeVars, regVars, brokerVars, rooms, heor, live, nextGid, budget, calls, ended, joined>>
  /\ UNCHANGED deliveryVars
  /\ UNCHANGED sent

\* enter_room, append to players, wallet and score entries, registry record,
\* random.shuffle, queue_declare, two queue_bind, _init_listener
accept_game_join(sid) ==
  /\ conn[sid].op = "accept" /\ conn[sid].pc = "join"
  /\ LET gid == conn[sid].gid
         g0 == conn[sid].game
     IN  /\ rooms' = [rooms EXCEPT ![gid] = @ \cup {sid}]
         /\ gr_gid' = [gr_gid EXCEPT ![sid] = gid]
         /\ joined' = [joined EXCEPT ![gid] = @ \cup {sid}]
         /\ queues' = [queues EXCEPT ![gid] = @ \cup {sid}]
         /\ bindings' = [bindings EXCEPT ![gid] = @ \cup {<<sid, sid>>, <<sid, BROADCAST_KEY>>}]
         /\ consumers' = InitListener(consumers, gid, sid)
         /\ gr_ctags' = InitListener(gr_ctags, gid, sid)
         /\ \E order \in Shuffles(Append(g0.players, sid)) :
              conn' = [conn EXCEPT ![sid].pc = "save",
                         ![sid].game = [g0 EXCEPT !.players = order,
                                                  !.player_wallet_addrs[sid] = conn[sid].w,
                                                  !.match_score[sid] = 0]]
         /\ ret' = NoRet
  /\ Quiet
  /\ UNCHANGED <<storeVars, exchange, exDeclares, exDeletes, heor, live, ops, nextGid, budget,
                 calls, ended>>
  /\ UNCHANGED deliveryVars
  /\ UNCHANGED sent

\* save_game(gid, game, sid)
accept_game_save(sid) ==
  /\ conn[sid].op = "accept" /\ conn[sid].pc = "save"
  /\ store' = [store EXCEPT ![conn[sid].gid] = conn[sid].game]
  /\ Goto(sid, "start")
  /\ Quiet
  /\ UNCHANGED <<regVars, brokerVars, rooms, heor, live, ops, nextGid, budget, calls, ended, joined>>
  /\ UNCHANGED deliveryVars
  /\ UNCHANGED sent

\* the "start" events of a round: BLACK to players[0], WHITE to players[1]
StartEvents(gid, game) ==
  [i \in 1..(IF Len(game.players) < 2 THEN Len(game.players) ELSE 2) |->
     Event(gid, "start", game.players[i], NoIndex, "-", NoScores,
           IF i = 1 THEN "BLACK" ELSE "WHITE", game.round)]

\* the colours last sent once the events evs of game gid are published in order
SentAfter(gid, evs) ==
  [sent EXCEPT ![gid] =
     [s \in Sids |->
        LET mine == {i \in 1..Len(evs) : evs[i].to = s}
        IN  IF mine = {} THEN @[s]
            ELSE evs[CHOOSE i \in mine : \A j \in mine : j <= i].colour]]

\* publish the two "start" events (the usage counters are not modelled)
accept_game_publish(sid) ==
  /\ conn[sid].op = "accept" /\ conn[sid].pc = "start"
  /\ pub' = StartEvents(conn[sid].gid, conn[sid].game)
  /\ sent' = SentAfter(conn[sid].gid, StartEvents(conn[sid].gid, conn[sid].game))
  /\ call' = NoCall
  /\ Finish(sid, "ok")
  /\ UNCHANGED <<storeVars, regVars, brokerVars, rooms, heor, live, ops, nextGid, budget, calls, ended, joined>>
  /\ UNCHANGED deliveryVars

(* ---------------- settlement (GameContract) ---------------- *)
\* one call on the contract; it counts as invoked whether or not it then fails
Settle(gid, kind, addr, by) ==
  /\ call' = [gid |-> gid, kind |-> kind, addr |-> addr, by |-> by]
  /\ calls' = [calls EXCEPT ![gid] = @ + 1]
  /\ pub' = <<>>

(* ---------------- cancel_game ---------------- *)
\* a client calls cancel_game(sid, created_on_contract); get_game_by_sid
cancel_game_load(sid, created_on_contract) ==
  /\ Request(sid)
  /\ LET gid == gr_gid[sid]
     IN  IF gid = NoGid \/ store[gid] = NoGame
         THEN Finish(sid, "not_found") /\ UNCHANGED ops
         ELSE /\ conn' = [conn EXCEPT ![sid] =
                   Task("cancel", IF created_on_contract THEN "settle" ELSE "clear",
                        gid, store[gid], 0, NoWallet)]
              /\ ret' = NoRet
              /\ Started
  /\ Quiet
  /\ UNCHANGED <<storeVars, regVars, brokerVars, rooms, heor, live, nextGid, budget, calls, ended, joined>>
  /\ UNCHANGED deliveryVars
  /\ UNCHANGED sent

\* contract.cancel_game(gid)
cancel_game_settle(sid) ==
  /\ conn[sid].op = "cancel" /\ conn[sid].pc = "settle"
  /\ Settle(conn[sid].gid, "cancelGame", NoWallet, sid)
  /\ Goto(sid, "clear")
  /\ UNCHANGED <<storeVars, regVars, brokerVars, rooms, heor, live, ops, nextGid, budget, ended, joined>>
  /\ UNCHANGED deliveryVars
  /\ UNCHANGED sent

(* ---------------- handle_exit ---------------- *)
\* the disconnect notification of a connection: return at once when the
\* registry has no record, else get_game_by_sid and the test of the
\* abandonment branch
handle_exit_load(sid) ==
  /\ conn[sid].op = "idle"
  /\ live' = [live EXCEPT ![sid] = "gone"]
  /\ IF gr_gid[sid] = NoGid
     THEN Finish(sid, "noop")
     ELSE LET game == store[gr_gid[sid]]
          IN  IF game = NoGame
              THEN Finish(sid, "not_found")
              ELSE /\ conn' = [conn EXCEPT ![sid] =
                        Task("exit", IF Len(game.players) > 1 /\ ~game.finished
                                     THEN "abandon" ELSE "clear",
                             gr_gid[sid], game, 0, NoWallet)]
                   /\ ret' = NoRet
  /\ Quiet
  /\ UNCHANGED <<storeVars, regVars, brokerVars, rooms, heor, ops, nextGid, budget, calls, ended, joined>>
  /\ UNCHANGED deliveryVars
  /\ UNCHANGED sent

winner_ind(sid, game) == opponent_ind(IndexOf(game.players, sid) - 1)

\* publish "move" (abandoned) and "matchEnded", set finished
handle_exit_abandon(sid) ==
  /\ conn[sid].op = "exit" /\ conn[sid].pc = "abandon"
  /\ LET gid == conn[sid].gid
         game == conn[sid].game
     IN  IF sid \notin RangeOf(game.players)
         THEN /\ Finish(sid, "value_error")
              /\ pub' = <<>>
              /\ UNCHANGED ended
         ELSE /\ pub' = <<Event(gid, "move", BROADCAST_KEY, winner_ind(sid, game), "ABANDONED",
                                game.match_score, "-", 0),
                          Event(gid, "matchEnded", BROADCAST_KEY, winner_ind(sid, game), "-",
                                NoScores, "-", 0)>>
              /\ ended' = [ended EXCEPT ![gid] = TRUE]
              /\ conn' = [conn EXCEPT ![sid].game.finished = TRUE, ![sid].pc = "save_fin"]
              /\ ret' = NoRet
  /\ call' = NoCall
  /\ UNCHANGED <<storeVars, regVars, brokerVars, rooms, heor, live, ops, nextGid, budget, calls, joined>>
  /\ UNCHANGED deliveryVars
  /\ UNCHANGED sent

\* save_game(gid, game)
handle_exit_save(sid) ==
  /\ conn[sid].op = "exit" /\ conn[sid].pc = "save_fin"
  /\ store' = [store EXCEPT ![conn[sid].gid] = conn[sid].game]
  /\ Goto(sid, "settle")
  /\ Quiet
  /\ UNCHANGED <<regVars, brokerVars, rooms, heor, live, ops, nextGid, budget, calls, ended, joined>>
  /\ UNCHANGED deliveryVars
  /\ UNCHANGED sent

\* contract.declare_winner(gid, player_wallet_addrs[players[winner_ind]])
handle_exit_settle(sid) ==
  /\ conn[sid].op = "exit" /\ conn[sid].pc = "settle"
  /\ LET game == conn[sid].game
     IN  Settle(conn[sid].gid, "declareWinner",
                game.player_wallet_addrs[game.players[winner_ind(sid, game) + 1]], sid)
  /\ Goto(sid, "clear")
  /\ UNCHANGED <<storeVars, regVars, brokerVars, rooms, heor, live, ops, nextGid, budget, ended, joined>>
  /\ UNCHANGED deliveryVars
  /\ UNCHANGED sent

(* ---------------- clear_game ---------------- *)
\* registry record removed, queue unbound from both keys, room left; then the
\* player is taken out of the local copy, or the last player's path is entered
clear_game_unbind(sid) ==
  /\ conn[sid].op \in {"exit", "cancel"} /\ conn[sid].pc = "clear"
  /\ LET gid == conn[sid].gid
         game == conn[sid].game
     IN  /\ gr_gid' = [gr_gid EXCEPT ![sid] = NoGid]
         /\ bindings' = [bindings EXCEPT ![gid] = @ \ {<<sid, sid>>, <<sid, BROADCAST_KEY>>}]
         /\ rooms' = [rooms EXCEPT ![gid] = @ \ {sid}]
         /\ IF Len(game.players) > 1
            THEN IF sid \in RangeOf(game.players)
                 THEN /\ conn' = [conn EXCEPT ![sid].game.players = RemoveFirst(game.players, sid),
                                              ![sid].pc = "save_rm"]
                      /\ ret' = NoRet
                 ELSE Finish(sid, "value_error")
            ELSE Goto(sid, "teardown")
  /\ Quiet
  /\ UNCHANGED <<storeVars, gr_ctags, consumers, exchange, exDeclares, exDeletes, queues,
                 heor, live, ops, nextGid, budget, calls, ended, joined>>
  /\ UNCHANGED deliveryVars
  /\ UNCHANGED sent

\* save_game(gid, game, sid) with the player removed
clear_game_save(sid) ==
  /\ conn[sid].op \in {"exit", "cancel"} /\ conn[sid].pc = "save_rm"
  /\ store' = [store EXCEPT ![conn[sid].gid] = conn[sid].game]
  /\ Finish(sid, "ok")
  /\ Quiet
  /\ UNCHANGED <<regVars, brokerVars, rooms, heor, live, ops, nextGid, budget, calls, ended, joined>>
  /\ UNCHANGED deliveryVars
  /\ UNCHANGED sent

\* close_room, basic_cancel of every tracked ctag, remove_all_game_ctags,
\* exchange_delete (the broker drops the exchange's bindings with it)
clear_game_teardown(sid) ==
  /\ conn[sid].op \in {"exit", "cancel"} /\ conn[sid].pc = "teardown"
  /\ LET gid == conn[sid].gid
     IN  /\ rooms' = [rooms EXCEPT ![gid] = {}]
         /\ consumers' = [consumers EXCEPT ![gid] =
                            [s \in Sids |-> IF @[s] > gr_ctags[gid][s]
                                            THEN @[s] - gr_ctags[gid][s] ELSE 0]]
         /\ gr_ctags' = [gr_ctags EXCEPT ![gid] = [s \in Sids |-> 0]]
         /\ exchange' = [exchange EXCEPT ![gid] = "deleted"]
         /\ exDeletes' = [exDeletes EXCEPT ![gid] = @ + 1]
         /\ bindings' = [bindings EXCEPT ![gid] = {}]
  /\ Goto(sid, "delete")
  /\ Quiet
  /\ UNCHANGED <<storeVars, gr_gid, exDeclares, queues, heor, live, ops, nextGid, budget, calls, ended, joined>>
  /\ UNCHANGED deliveryVars
  /\ UNCHANGED sent

\* redis delete of the game key
clear_game_delete(sid) ==
  /\ conn[sid].op \in {"exit", "cancel"} /\ conn[sid].pc = "delete"
  /\ store' = [store EXCEPT ![conn[sid].gid] = NoGame]
  /\ Finish(sid, "ok")
  /\ Quiet
  /\ UNCHANGED <<regVars, brokerVars, rooms, heor, live, ops, nextGid, budget, calls, ended, joined>>
  /\ UNCHANGED deliveryVars
  /\ UNCHANGED sent

(* ---------------- handle_end_of_round ---------------- *)
\* outcome of the round that was just played, added to the in-memory score by
\* the caller: the player at position 1 or 2 wins the round, or 0 for a drawn round
RoundScore(game, result) ==
  IF result = 0 THEN game.match_score
  ELSE [game.match_score EXCEPT ![game.players[result]] = @ + 1]

\* a comparison that names the index of the lower score
OverallWinner_Swapped(match_score, players) ==
  IF match_score[players[1]] > match_score[players[2]] THEN 1
  ELSE IF match_score[players[1]] < match_score[players[2]] THEN 0
  ELSE None

\* the positional comparison of the final round
OverallWinner(match_score, players) ==
  IF match_score[players[1]] > match_score[players[2]] THEN 0
  ELSE IF match_score[players[1]] < match_score[players[2]] THEN 1
  ELSE None

\* handle_end_of_round(gid, game) is entered with the in-memory game of a round
\* that just completed, which its two players were told to start; on the final
\* round it publishes "matchEnded" at once, unless a score is missing for one
\* of the first two players (KeyError)
handle_end_of_round_start(gid, result) ==
  /\ heor[gid].pc = "idle"
  /\ store[gid] # NoGame /\ Len(store[gid].players) >= 2 /\ ~store[gid].finished
  /\ \A i \in 1..2 : sent[gid][store[gid].players[i]] # "-"
  /\ result # 0 => store[gid].match_score[store[gid].players[result]] # NoScore
  /\ LET game == [store[gid] EXCEPT !.match_score = RoundScore(store[gid], result)]
         ow == OverallWinner(game.match_score, game.players)
     IN  IF game.round = game.n_rounds
         THEN IF \E i \in 1..2 : game.match_score[game.players[i]] = NoScore
              THEN /\ pub' = <<>>
                   /\ HeorFinish(gid, "key_error")
                   /\ UNCHANGED ended
              ELSE /\ pub' = <<Event(gid, "matchEnded", BROADCAST_KEY, ow, "-", NoScores, "-", 0)>>
                   /\ ended' = [ended EXCEPT ![gid] = TRUE]
                   /\ heor' = [heor EXCEPT ![gid] =
                        Heor("save_fin", [game EXCEPT !.finished = TRUE], game.match_score, ow)]
                   /\ ret' = NoRet
         ELSE /\ pub' = <<>>
              /\ UNCHANGED ended
              /\ heor' = [heor EXCEPT ![gid] = Heor("sleep", NoGame, game.match_score, None)]
              /\ ret' = NoRet
  /\ call' = NoCall
  /\ UNCHANGED <<storeVars, regVars, brokerVars, rooms, conn, live, ops, nextGid, budget, calls,
                 joined>>
  /\ UNCHANGED deliveryVars
  /\ UNCHANGED sent

\* final round: save_game(gid, game) with finished set
handle_end_of_round_save(gid) ==
  /\ heor[gid].pc = "save_fin"
  /\ store' = [store EXCEPT ![gid] = heor[gid].game]
  /\ HeorGoto(gid, "settle")
  /\ Quiet
  /\ UNCHANGED <<regVars, brokerVars, rooms, conn, live, ops, nextGid, budget, calls, ended, joined>>
  /\ UNCHANGED deliveryVars
  /\ UNCHANGED sent

\* final round: contract.declare_winner or contract.declare_draw
handle_end_of_round_settle(gid) ==
  /\ heor[gid].pc = "settle"
  /\ LET game == heor[gid].game
         ow == heor[gid].overall_winner
     IN  IF ow # None
         THEN Settle(gid, "declareWinner", game.player_wallet_addrs[game.players[ow + 1]], "-")
         ELSE Settle(gid, "declareDraw", NoWallet, "-")
  /\ HeorFinish(gid, "final")
  /\ UNCHANGED <<storeVars, regVars, brokerVars, rooms, conn, live, ops, nextGid, budget, ended, joined>>
  /\ UNCHANGED deliveryVars
  /\ UNCHANGED sent

\* a next round that keeps the colours of the round before
NextRound_KeepsOrder(game, match_score) ==
  [game EXCEPT !.round = @ + 1,
               !.match_score = match_score,
               !.tr_white = game.time_control * MILLISECONDS_PER_MINUTE,
               !.tr_black = game.time_control * MILLISECONDS_PER_MINUTE]

\* the round after the cooldown: the refreshed game with the round advanced
NextRound(game, match_score) ==
  [game EXCEPT !.round = @ + 1,
               !.match_score = match_score,
               !.players = Reverse(@),
               !.tr_white = game.time_control * MILLISECONDS_PER_MINUTE,
               !.tr_black = game.time_control * MILLISECONDS_PER_MINUTE]

\* non-final round: the cooldown is over, get_game_by_gid refreshes the game
handle_end_of_round_refetch(gid) ==
  /\ heor[gid].pc = "sleep"
  /\ IF store[gid] = NoGame
     THEN HeorFinish(gid, "not_found")
     ELSE /\ heor' = [heor EXCEPT ![gid].game = store[gid], ![gid].pc = "save_next"]
          /\ ret' = NoRet
  /\ Quiet
  /\ UNCHANGED <<storeVars, regVars, brokerVars, rooms, conn, live, ops, nextGid, budget, calls, ended, joined>>
  /\ UNCHANGED deliveryVars
  /\ UNCHANGED sent

\* non-final round: round, score, board, players and clocks are set on the
\* refreshed game, then save_game(gid, game)
handle_end_of_round_advance(gid) ==
  /\ heor[gid].pc = "save_next"
  /\ LET game == NextRound(heor[gid].game, heor[gid].match_score)
     IN  /\ store' = [store EXCEPT ![gid] = game]
         /\ heor' = [heor EXCEPT ![gid].game = game, ![gid].pc = "start"]
         /\ ret' = NoRet
  /\ Quiet
  /\ UNCHANGED <<regVars, brokerVars, rooms, conn, live, ops, nextGid, budget, calls, ended, joined>>
  /\ UNCHANGED deliveryVars
  /\ UNCHANGED sent

\* non-final round: the "start" events, unless the refreshed game is finished
handle_end_of_round_publish(gid) ==
  /\ heor[gid].pc = "start"
  /\ LET game == heor[gid].game
     IN  IF game.finished
         THEN /\ pub' = <<>>
              /\ UNCHANGED sent
              /\ HeorFinish(gid, "abandoned")
         ELSE /\ pub' = StartEvents(gid, game)
              /\ sent' = SentAfter(gid, StartEvents(gid, game))
              /\ HeorFinish(gid, IF Len(game.players) < 2 THEN "index_error" ELSE "advanced")
  /\ call' = NoCall
  /\ UNCHANGED <<storeVars, regVars, brokerVars, rooms, conn, live, ops, nextGid, budget, calls, ended, joined>>
  /\ UNCHANGED deliveryVars

(* ---------------- delivery wrapper ---------------- *)
\* _init_listener.on_message: the consumer of sid's queue gets a message and
\* creates the first emit task, its done-callback carrying attempts = 1
on_message(e, sid) ==
  /\ emits[e].state = "none"
  /\ emits' = [emits EXCEPT ![e] =
       [state |-> "emitting", to |-> sid, attempts |-> 1, tasks |-> 1, failed |-> 0]]
  /\ ret' = NoRet
  /\ UNCHANGED <<gameVars>>

\* a callback that still retries when the bound is reached
OnEmitDone_RetriesAtBound(em, raised) ==
  IF ~raised
  THEN [em EXCEPT !.state = "delivered"]
  ELSE IF em.attempts <= MAX_EMIT_RETRIES
       THEN [em EXCEPT !.attempts = @ + 1, !.tasks = @ + 1, !.failed = @ + 1]
       ELSE [em EXCEPT !.state = "dropped", !.failed = @ + 1]

\* what _on_emit_done does with a finished emit task: the exception of
\* task.result() is caught, so nothing is raised out of the callback
OnEmitDone(em, raised) ==
  IF ~raised
  THEN [em EXCEPT !.state = "delivered"]
  ELSE IF em.attempts < MAX_EMIT_RETRIES
       THEN [em EXCEPT !.attempts = @ + 1, !.tasks = @ + 1, !.failed = @ + 1]
       ELSE [em EXCEPT !.state = "dropped", !.failed = @ + 1]

\* an emit task ends, with or without an exception, and _on_emit_done runs
_on_emit_done(e, raised) ==
  /\ emits[e].state = "emitting"
  /\ emits' = [emits EXCEPT ![e] = OnEmitDone(emits[e], raised)]
  /\ ret' = NoRet
  /\ UNCHANGED <<gameVars>>

(* ---------------- specification ---------------- *)
Next ==
  \/ \E sid \in Sids, tc \in TimeControls, wager \in Wagers, n \in Rounds :
       create_scan(sid, tc, wager, WalletOf(sid), n)
  \/ \E sid \in Sids : create_validate(sid)
  \/ \E sid \in Sids : create_save(sid)
  \/ \E sid \in Sids : create_topology(sid)
  \/ \E sid \in Sids, gid \in Gids : accept_game_load(sid, gid, WalletOf(sid))
  \/ \E sid \in Sids : accept_game_join(sid)
  \/ \E sid \in Sids : accept_game_save(sid)
  \/ \E sid \in Sids : accept_game_publish(sid)
  \/ \E sid \in Sids, created \in BOOLEAN : cancel_game_load(sid, created)
  \/ \E sid \in Sids : cancel_game_settle(sid)
  \/ \E sid \in Sids : handle_exit_load(sid)
  \/ \E sid \in Sids : handle_exit_abandon(sid)
  \/ \E sid \in Sids : handle_exit_save(sid)
  \/ \E sid \in Sids : handle_exit_settle(sid)
  \/ \E sid \in Sids : clear_game_unbind(sid)
  \/ \E sid \in Sids : clear_game_save(sid)
  \/ \E sid \in Sids : clear_game_teardown(sid)
  \/ \E sid \in Sids : clear_game_delete(sid)
  \/ \E gid \in Gids, result \in Results : handle_end_of_round_start(gid, result)
  \/ \E gid \in Gids : handle_end_of_round_save(gid)
  \/ \E gid \in Gids : handle_end_of_round_settle(gid)
  \/ \E gid \in Gids : handle_end_of_round_refetch(gid)
  \/ \E gid \in Gids : handle_end_of_round_advance(gid)
  \/ \E gid \in Gids : handle_end_of_round_publish(gid)

Spec == Init /\ [][Next]_vars

(* the delivery wrapper on its own: messages consumed and emit tasks ending *)
InitEmit == InitWith(0)

NextEmit ==
  \/ \E e \in Events, sid \in Sids : on_message(e, sid)
  \/ \E e \in Events, raised \in BOOLEAN : _on_emit_done(e, raised)

SpecEmit == InitEmit /\ [][NextEmit]_vars

\* asyncio runs every task to its end and then calls its done-callbacks
SpecEmitFair ==
  SpecEmit /\ \A e \in Events : WF_vars(\E raised \in BOOLEAN : _on_emit_done(e, raised))

(* ---------------- a match in progress ---------------- *)
TickedClock(tc) == tc * MILLISECONDS_PER_MINUTE - 1000

\* the snapshots of a two-player match that is being played: any colour
\* assignment, any round, the clocks run down or not, the scores of the rounds
\* played so far
MatchesInProgress ==
  {Game(order, wager, [s \in Sids |-> WalletOf(s)], tc, score, n, r, TickedClock(tc),
        IF ticked THEN TickedClock(tc) ELSE tc * MILLISECONDS_PER_MINUTE, FALSE) :
     order \in Shuffles(<<"a", "b">>), wager \in Wagers, tc \in TimeControls,
     score \in {sc \in [Sids -> 0..MaxScore] : sc["a"] + sc["b"] <= MaxScore},
     n \in Rounds, r \in 1..VALID_N_ROUNDS_RANGE[2], ticked \in BOOLEAN}

\* the state create and accept_game leave behind once both have returned
InitMatch ==
  /\ store \in {[g \in Gids |-> IF g = 1 THEN m ELSE NoGame] :
                  m \in {x \in MatchesInProgress :
                           /\ x.round <= x.n_rounds
                           /\ x.match_score["a"] + x.match_score["b"] < x.round}}
  /\ gr_gid = [s \in Sids |-> 1]
  /\ gr_ctags = [g \in Gids |-> [s \in Sids |-> IF g = 1 THEN 1 ELSE 0]]
  /\ consumers = [g \in Gids |-> [s \in Sids |-> IF g = 1 THEN 1 ELSE 0]]
  /\ exchange = [g \in Gids |-> IF g = 1 THEN "declared" ELSE "none"]
  /\ exDeclares = [g \in Gids |-> IF g = 1 THEN 1 ELSE 0]
  /\ exDeletes = [g \in Gids |-> 0]
  /\ queues = [g \in Gids |-> IF g = 1 THEN Sids ELSE {}]
  /\ bindings = [g \in Gids |-> IF g = 1
                                THEN {<<s, s>> : s \in Sids} \cup {<<s, BROADCAST_KEY>> : s \in Sids}
                                ELSE {}]
  /\ rooms = [g \in Gids |-> IF g = 1 THEN Sids ELSE {}]
  /\ conn = [s \in Sids |-> Idle]
  /\ heor = [g \in Gids |-> NoHeor]
  /\ live = [s \in Sids |-> "live"]
  /\ ops = 2
  /\ nextGid = 1
  /\ budget = 1
  /\ pub = <<>>
  /\ call = NoCall
  /\ ret = NoRet
  /\ calls = [g \in Gids |-> 0]
  /\ ended = [g \in Gids |-> FALSE]
  /\ joined = [g \in Gids |-> IF g = 1 THEN Sids ELSE {}]
  /\ sent = [g \in Gids |-> IF g = 1
                            THEN [s \in Sids |-> IF s = store[1].players[1] THEN "BLACK" ELSE "WHITE"]
                            ELSE NoColours]
  /\ emits = [e \in Events |-> NoEmit]

MatchResults == {0, 1, 2}

NextMatch ==
  \/ \E sid \in Sids, created \in BOOLEAN : cancel_game_load(sid, created)
  \/ \E sid \in Sids : cancel_game_settle(sid)
  \/ \E sid \in Sids : handle_exit_load(sid)
  \/ \E sid \in Sids : handle_exit_abandon(sid)
  \/ \E sid \in Sids : handle_exit_save(sid)
  \/ \E sid \in Sids : handle_exit_settle(sid)
  \/ \E sid \in Sids : clear_game_unbind(sid)
  \/ \E sid \in Sids : clear_game_save(sid)
  \/ \E sid \in Sids : clear_game_teardown(sid)
  \/ \E sid \in Sids : clear_game_delete(sid)
  \/ \E gid \in Gids, result \in MatchResults : handle_end_of_round_start(gid, result)
  \/ \E gid \in Gids : handle_end_of_round_save(gid)
  \/ \E gid \in Gids : handle_end_of_round_settle(gid)
  \/ \E gid \in Gids : handle_end_of_round_refetch(gid)
  \/ \E gid \in Gids : handle_end_of_round_advance(gid)
  \/ \E gid \in Gids : handle_end_of_round_publish(gid)

SpecMatch == InitMatch /\ [][NextMatch]_vars

(* ---------------- admission ---------------- *)
AdmitTimeControls == {3, 4}
AdmitWagers == {0, 50, 100, 101}
AdmitRounds == {0, 1, 3}

InitAdmit == InitWith(MaxGamesAdmit)

NextAdmit ==
  \/ \E sid \in Sids, tc \in AdmitTimeControls, wager \in AdmitWagers, n \in AdmitRounds :
       create_scan(sid, tc, wager, WalletOf(sid), n)
  \/ \E sid \in Sids : create_validate(sid)
  \/ \E sid \in Sids : create_save(sid)
  \/ \E sid \in Sids : create_topology(sid)
  \/ \E sid \in Sids, text \in GidTexts : get_game_details_validate(sid, text)
  \/ \E sid \in Sids : get_game_details_load(sid)
  \/ \E sid \in Sids, created \in BOOLEAN : cancel_game_load(sid, created)
  \/ \E sid \in Sids : cancel_game_settle(sid)
  \/ \E sid \in Sids : clear_game_unbind(sid)
  \/ \E sid \in Sids : clear_game_teardown(sid)
  \/ \E sid \in Sids : clear_game_delete(sid)

SpecAdmit == InitAdmit /\ [][NextAdmit]_vars


(* ======================= the claims ======================= *)
\* no client handler and no handle_end_of_round is in flight
Quiescent == (\A s \in Sids : conn[s].op = "idle") /\ (\A g \in Gids : heor[g].pc = "idle")

GamesInStore == {g \in Gids : store[g] # NoGame}

\* C1: for every game the settlement service (declareWinner, declareDraw and
\* cancelGame counted together) is invoked at most once over the game's life,
\* under every interleaving of the handlers
C1_SettledAtMostOnce == \A g \in Gids : calls[g] <= 1

\* C2: a game's exchange is declared once and deleted at most once, and once
\* every player has left (no handler in flight, no registry record for the
\* game any more) it has been deleted exactly once
C2_ExchangeDeletedOnce ==
  \A g \in Gids :
    /\ exDeclares[g] <= 1
    /\ exDeletes[g] <= 1
    /\ (Quiescent /\ exDeclares[g] = 1 /\ \A s \in Sids : gr_gid[s] # g)
         => (exchange[g] = "deleted" /\ exDeletes[g] = 1)

\* the steps of handle_exit(s) on its abandonment branch
ExitAbandons(s) == conn[s].op = "exit" /\ conn[s].pc = "abandon" /\ conn'[s].pc = "save_fin"

ExitSaves(s) == conn[s].op = "exit" /\ conn[s].pc = "save_fin" /\ conn'[s].pc = "settle"

ExitSettles(s) == conn[s].op = "exit" /\ conn[s].pc = "settle" /\ conn'[s].pc = "clear"

\* what C3 says of the steps of handle_exit(s) when the game it loads has two
\* players (two different connections, with distinct) and is not finished
AbandonmentSteps(s, distinct) ==
  LET game == IF conn[s].op = "idle" THEN conn'[s].game ELSE conn[s].game
      two == /\ Len(game.players) = 2
             /\ distinct => Cardinality(RangeOf(game.players)) = 2
  IN  two =>
      /\ ExitAbandons(s) =>
           /\ Len(pub') = 2
           /\ pub'[1].name = "move" /\ pub'[1].outcome = "ABANDONED"
           /\ pub'[1].matchScore = game.match_score
           /\ pub'[2].name = "matchEnded"
           /\ pub'[2].winner \in {0, 1}
           /\ game.players[pub'[2].winner + 1] # s
      /\ ExitSaves(s) => store'[conn[s].gid].finished
      /\ ExitSettles(s) =>
           /\ calls'[conn[s].gid] = calls[conn[s].gid] + 1
           /\ call'.kind = "declareWinner" /\ call'.gid = conn[s].gid
           /\ \E o \in RangeOf(game.players) \ {s} : call'.addr = game.player_wallet_addrs[o]
           /\ call'.addr # game.player_wallet_addrs[s]
      \* the branch is taken exactly when the loaded game is not finished, and
      \* the call is made exactly once on it
      /\ (conn[s].op = "idle" /\ conn'[s].op = "exit") =>
           (conn'[s].pc = "abandon" <=> ~game.finished)
      /\ (conn[s].op = "exit" /\ conn'[s] # conn[s] /\ ~ExitSettles(s)) =>
           (call' = NoCall \/ call'.by # s)
      /\ (conn[s].op = "exit" /\ conn[s].pc = "abandon") => conn'[s].pc \in {"abandon", "save_fin"}
      /\ (conn[s].op = "exit" /\ conn[s].pc = "save_fin") => conn'[s].pc \in {"save_fin", "settle"}
      /\ (conn[s].op = "exit" /\ conn[s].pc = "settle") => conn'[s].pc \in {"settle", "clear"}

\* C3: handle_exit on a game with two players, not finished, publishes "move"
\* (abandoned, current score) and "matchEnded" naming the opponent's index,
\* persists finished = TRUE and calls declareWinner exactly once with the
\* opponent's wallet, never the wallet of the connection that disconnected
C3_AbandonmentDeclaresOpponent == [][\A s \in Sids : AbandonmentSteps(s, FALSE)]_vars

\* the same restricted to games whose two players are two different connections
AbandonmentOfDistinctPlayers == [][\A s \in Sids : AbandonmentSteps(s, TRUE)]_vars

\* C4: a handle_exit for a connection whose disconnect was already handled
\* returns at once: it reads no snapshot, publishes nothing, settles nothing
\* and changes neither the store, the registry nor the broker topology
C4_SecondExitIsNoOp ==
  [][\A s \in Sids :
       (conn[s].op = "idle" /\ live[s] = "gone" /\ (ret'.who = s \/ conn'[s] # conn[s]))
         => (ret' = Ret(s, "noop") /\ UNCHANGED <<store, gr_gid, gr_ctags, consumers, exchange,
                                                   exDeclares, exDeletes, queues, bindings, rooms,
                                                   calls, conn>> /\ pub' = <<>> /\ call' = NoCall)]_vars

\* w is the overall winner the positional comparison of game's scores gives
IsPositionalWinner(w, game) ==
  LET first == game.match_score[game.players[1]]
      second == game.match_score[game.players[2]]
  IN  \/ first > second /\ w = 0
      \/ first < second /\ w = 1
      \/ first = second /\ w = None

\* what C5 says of the steps of handle_end_of_round(g, game) on the final round
FinalRoundSteps(g) ==
  /\ (heor[g].pc = "idle" /\ heor'[g].pc = "sleep") => store[g].round # store[g].n_rounds
  /\ (heor[g].pc = "idle" /\ heor'[g].pc = "save_fin") =>
       LET game == heor'[g].game
       IN  /\ game.round = game.n_rounds
           /\ Len(pub') = 1
           /\ pub'[1].name = "matchEnded" /\ pub'[1].to = BROADCAST_KEY /\ pub'[1].gid = g
           /\ IsPositionalWinner(pub'[1].winner, game)
           /\ call' = NoCall
  /\ (heor[g].pc = "save_fin" /\ heor'[g].pc # "save_fin") =>
       /\ heor'[g].pc = "settle"
       /\ store'[g] = heor[g].game
       /\ store'[g].finished
       /\ call' = NoCall
  /\ (heor[g].pc = "settle" /\ heor'[g].pc # "settle") =>
       LET game == heor[g].game
       IN  /\ heor'[g].pc = "idle"
           /\ calls'[g] = calls[g] + 1
           /\ call'.gid = g
           /\ \E w \in {0, 1, None} :
                /\ IsPositionalWinner(w, game)
                /\ IF w = None
                   THEN call'.kind = "declareDraw"
                   ELSE /\ call'.kind = "declareWinner"
                        /\ call'.addr = game.player_wallet_addrs[game.players[w + 1]]
  /\ (call' # NoCall /\ call'.gid = g /\ call'.by = "-") => heor[g].pc = "settle"

\* C5: on the final round handle_end_of_round broadcasts "matchEnded" with the
\* positional overall winner (0, 1, or none when the scores are equal),
\* persists finished = TRUE, and then calls declareWinner once with the wallet
\* of players[overallWinner], or declareDraw once when the scores are equal
C5_FinalRoundSettlesPositionalWinner == [][\A g \in Gids : FinalRoundSteps(g)]_vars

C5_Witness ==
  /\ call.kind = "declareWinner" /\ call.by = "-"
  /\ ret = Ret("heor", "final")
  /\ LET game == store[call.gid]
     IN  /\ game.finished
         /\ Len(game.players) = 2
         /\ game.match_score[game.players[2]] > game.match_score[game.players[1]]
         /\ call.addr = game.player_wallet_addrs[game.players[2]]

\* what C6 says of the write that ends the cooldown of handle_end_of_round(g,
\* game): before is the snapshot read back after the cooldown
AdvanceSteps(g) ==
  /\ (heor[g].pc = "save_next" /\ heor'[g].pc # "save_next") =>
       LET before == heor[g].game
           after == store'[g]
       IN  /\ after.round = before.round + 1
           /\ Len(after.players) = Len(before.players)
           /\ \A i \in 1..Len(before.players) :
                after.players[i] = before.players[Len(before.players) + 1 - i]
           /\ after.tr_white = before.time_control * 60000
           /\ after.tr_black = before.time_control * 60000
           /\ after.match_score = heor[g].match_score
           /\ ~before.finished => ~after.finished
  \* the score is the one captured when the cooldown began
  /\ (heor[g].pc = "idle" /\ heor'[g].pc = "sleep") =>
       \E result \in MatchResults : heor'[g].match_score = RoundScore(store[g], result)
  /\ (heor[g].pc \in {"sleep", "save_next"} /\ heor'[g].pc # "idle") =>
       heor'[g].match_score = heor[g].match_score

\* C6: on a non-final round, with no abandonment during the cooldown,
\* handle_end_of_round leaves the persisted game with round + 1, the players
\* reversed, both clocks at timeControl x 60000, matchScore as captured
\* before the cooldown, and finished still FALSE
C6_NonFinalRoundAdvances == [][\A g \in Gids : AdvanceSteps(g)]_vars

C6_Witness ==
  \E g \in Gids :
    /\ heor[g].pc = "start"
    /\ store[g] = heor[g].game
    /\ store[g].round = 2
    /\ ~store[g].finished
    /\ store[g].players = <<"b", "a">>
    /\ store[g].tr_white = store[g].time_control * 60000
    /\ store[g].match_score["a"] = 1

\* what C7 says of an event the wrapper has taken
AttemptsBounded(em) ==
  /\ em.tasks <= MAX_EMIT_RETRIES
  /\ em.state = "emitting" => em.tasks = em.failed + 1
  /\ em.state = "delivered" => em.tasks = em.failed + 1
  /\ em.state = "dropped" => (em.tasks = MAX_EMIT_RETRIES /\ em.failed = MAX_EMIT_RETRIES)

\* C7: an event gets at most MAX_EMIT_RETRIES emit attempts, k when the k-th
\* is the first to succeed and MAX_EMIT_RETRIES when they all fail, after
\* which it is dropped; the chain of retries ends, and no step of the wrapper
\* raises to a caller
C7_DeliveryRetriesBounded ==
  /\ [](\A e \in Events : AttemptsBounded(emits[e]))
  /\ [][emits' # emits => ret' = NoRet]_vars
  /\ \A e \in Events :
       (emits[e].state = "emitting") ~> (emits[e].state \in {"delivered", "dropped"})

C7_Witness ==
  \E e \in Events :
    /\ emits[e].state = "dropped"
    /\ emits[e].tasks = MAX_EMIT_RETRIES
    /\ emits[e].failed = MAX_EMIT_RETRIES

\* the admission rule of C8 for a create whose scan counted t.n games
Admissible(t) ==
  /\ t.n < CONCURRENT_GAME_LIMIT
  /\ t.game.wager \in VALID_WAGER_RANGE[1]..VALID_WAGER_RANGE[2]
  /\ t.game.time_control \in VALID_TIME_CONTROLS
  /\ t.game.n_rounds \in VALID_N_ROUNDS_RANGE[1]..VALID_N_ROUNDS_RANGE[2]

\* what C8 says of the steps of create(s, ...) up to its admission
AdmissionSteps(s) ==
  /\ (conn[s].op = "idle" /\ conn'[s].op = "create") =>
       conn'[s].n = Cardinality(GamesInStore)
  /\ (conn[s].op = "create" /\ conn[s].pc = "validate" /\ conn'[s] # conn[s]) =>
       /\ conn'[s].pc = "save" <=> Admissible(conn[s])
       /\ conn[s].n >= CONCURRENT_GAME_LIMIT => ret' = Ret(s, "capacity")
       /\ ~Admissible(conn[s]) =>
            /\ ret'.who = s
            /\ ret'.res \in {"capacity", "wager", "time_control", "n_rounds"}
            /\ conn'[s] = Idle
            /\ UNCHANGED <<store, gr_gid, gr_ctags, rooms, consumers, exchange, exDeclares,
                           queues, bindings, nextGid>>

\* C8: create is admitted exactly when the counted games are below the limit,
\* the wager and the number of rounds are in their inclusive ranges and the
\* time control is in the configured set; a rejected create raises an error
\* and leaves no snapshot, registry record, room membership, exchange or queue
C8_CreateAdmission == [][\A s \in Sids : AdmissionSteps(s)]_vars

C8_Witness ==
  /\ ret.res = "capacity"
  /\ Cardinality(GamesInStore) = CONCURRENT_GAME_LIMIT
  /\ \E g \in GamesInStore : store[g].wager = VALID_WAGER_RANGE[2]
  /\ \A s \in Sids : conn[s].op = "idle"

\* C9: players of every persisted snapshot has length 1 or 2
C9_OneOrTwoPlayers == \A g \in Gids : store[g] # NoGame => Len(store[g].players) \in {1, 2}

\* C10 as claimed: the keys of matchScore are among the current players of
\* every persisted snapshot
C10_ScoreKeysArePlayers ==
  \A g \in Gids : Keys(store[g].match_score, NoScore) \subseteq RangeOf(store[g].players)

\* C10 as amended: the keys of matchScore are among the connections that
\* have ever been in the game's players; a player who left keeps its entry
C10_ScoreKeysEverPlayers ==
  \A g \in Gids : Keys(store[g].match_score, NoScore) \subseteq joined[g]

C10_Witness ==
  \E g \in Gids : \E s \in Sids :
    /\ store[g] # NoGame
    /\ store[g].match_score[s] # NoScore
    /\ s \notin RangeOf(store[g].players)
    /\ s \in joined[g]

\* C11: in every persisted snapshot 1 <= round <= nRounds, with one
\* handle_end_of_round per completed round, also when the game was abandoned
\* in the cooldown
C11_RoundWithinBounds ==
  \A g \in Gids : store[g] # NoGame =>
    (1 <= store[g].round /\ store[g].round <= store[g].n_rounds)

\* the same restricted to games that no connection has joined twice
RoundWithinBoundsOfSingleJoins ==
  \A g \in Gids :
    (store[g] # NoGame /\ exDeletes[g] = 0 /\ \A s \in Sids : consumers[g][s] <= 1) =>
      (1 <= store[g].round /\ store[g].round <= store[g].n_rounds)

\* C12: get_game_details with a code that is not a UUID is rejected with the
\* format error before any store access: the handler ends in the call, no
\* snapshot is read, no game info is emitted and no state changes
C12_MalformedCodeRejectedFirst ==
  [][\A s \in Sids, t \in GidTexts :
       ((t.digits # 32 \/ ~t.hex) /\ get_game_details_validate(s, t)) =>
         /\ ret' = Ret(s, "invalid_code")
         /\ conn'[s] = Idle
         /\ UNCHANGED <<store, gr_gid, gr_ctags, consumers, exchange, queues, bindings, rooms,
                        heor, live, calls, ended, joined>>
         /\ pub' = <<>> /\ call' = NoCall]_vars

C12_Witness ==
  \E s \in Sids :
    /\ ret = Ret(s, "invalid_code")
    /\ conn[s] = Idle
    /\ \E g \in Gids : store[g] # NoGame /\ Len(store[g].players) = 1

\* the "start" events among the events of the step that go to p for round r of g
StartsTo(evs, g, p, r) ==
  {i \in 1..Len(evs) : evs[i].name = "start" /\ evs[i].gid = g /\ evs[i].to = p /\ evs[i].round = r}

\* what C13 says of the steps of handle_end_of_round(g) after its cooldown;
\* with distinct set, the events of the publish step are only looked at for
\* a players list of at most two entries, all different
NextRoundSteps(g, distinct) ==
  /\ (heor[g].pc = "sleep" /\ heor'[g].pc = "save_next") =>
       (heor'[g].game = store[g] /\ pub' = <<>>)
  /\ (heor[g].pc = "save_next" /\ heor'[g].pc = "start") =>
       /\ store'[g] = heor'[g].game
       /\ heor'[g].game.round = heor[g].game.round + 1
       /\ heor'[g].game.finished = heor[g].game.finished
       /\ pub' = <<>>
  /\ (heor[g].pc = "start" /\ heor'[g].pc = "idle") =>
       LET game == heor[g].game
       IN  IF game.finished
           THEN pub' = <<>>
           ELSE (distinct => Cardinality(RangeOf(game.players)) = Len(game.players)
                               /\ Len(game.players) <= 2) =>
                  /\ \A p \in RangeOf(game.players) :
                       Cardinality(StartsTo(pub', g, p, game.round)) = 1
                  /\ \A i \in 1..Len(pub') :
                       pub'[i].name = "start" /\ pub'[i].to \in RangeOf(game.players)
  /\ (heor'[g] # heor[g] /\ \E i \in 1..Len(pub') : pub'[i].name = "start") =>
       heor[g].pc = "start"

\* C13: on the non-final path handle_end_of_round publishes "start" events
\* only if the game it re-read after the cooldown is not finished: none when an
\* abandonment was read, else one per player, after the save of the advanced
\* snapshot and carrying the new round number
C13_StartOnlyIfNotFinished == [][\A g \in Gids : NextRoundSteps(g, FALSE)]_vars

\* the same for games whose players are at most two different connections
StartOnlyIfNotFinishedOfDistinctPlayers == [][\A g \in Gids : NextRoundSteps(g, TRUE)]_vars

\* the per-connection teardown of clear_game has been done for s in game g
TornDown(s, g) ==
  /\ gr_gid'[s] = NoGid
  /\ <<s, s>> \notin bindings'[g] /\ <<s, BROADCAST_KEY>> \notin bindings'[g]
  /\ s \notin rooms'[g]

\* no connection has joined game g twice (one consumer per queue at most)
SingleJoins(g) == exDeletes[g] = 0 /\ \A x \in Sids : consumers[g][x] <= 1

\* what C14 says of the steps in which a handle_exit(s) ends; with single
\* set, only for games that no connection has joined twice
ExitEnds(s, single) ==
  /\ (conn[s].op = "idle" /\ live'[s] = "gone" /\ ret'.who = s /\ gr_gid[s] # NoGid
      /\ (single => SingleJoins(gr_gid[s]))) =>
       TornDown(s, gr_gid[s])
  /\ (conn[s].op = "exit" /\ ret'.who = s /\ (single => SingleJoins(conn[s].gid))) =>
       TornDown(s, conn[s].gid)

\* C14: every handle_exit of a connection that has a registry record does the
\* per-connection teardown (record removed, queue unbound from its own key
\* and from the broadcast key, room left) by the time it ends, whether or not
\* it took the abandonment branch
C14_ExitTearsDown == [][\A s \in Sids : ExitEnds(s, FALSE)]_vars

\* the same for games that no connection has joined twice
ExitTearsDownOfSingleJoins == [][\A s \in Sids : ExitEnds(s, TRUE)]_vars

\* nothing of game g is left in the room, the registry's consumer tags, the
\* broker's consumers and exchanges
NothingLeft(g) ==
  /\ rooms'[g] = {}
  /\ \A x \in Sids : gr_ctags'[g][x] = 0 /\ consumers'[g][x] = 0
  /\ exchange'[g] = "deleted"

\* what C15 says of the steps of clear_game(s) on its last-player path; with
\* atEnd set, nothing is left either when the path ends with the delete
LastPlayerSteps(s, atEnd) ==
  LET g == conn[s].gid
  IN  /\ (conn[s].pc = "clear" /\ conn'[s].pc = "teardown") => Len(conn[s].game.players) = 1
      /\ (conn[s].pc = "teardown" /\ conn'[s].pc = "delete") => NothingLeft(g)
      /\ (conn[s].pc = "delete" /\ conn'[s] = Idle) =>
           /\ store'[g] = NoGame
           /\ atEnd => NothingLeft(g)

\* a snapshot only disappears in the delete of a last player's clear_game
DeletedByLastPlayerOnly(g) ==
  (store[g] # NoGame /\ store'[g] = NoGame) =>
    \E s \in Sids :
      /\ conn[s].pc = "delete" /\ conn[s].gid = g /\ conn'[s] = Idle
      /\ Len(conn[s].game.players) = 1

\* C15: the teardown of the last remaining player (players of length 1)
\* leaves nothing of the game behind: room closed, every tracked consumer
\* cancelled and removed from the registry, exchange deleted, snapshot deleted;
\* and no other path deletes the snapshot
C15_LastPlayerLeavesNothing ==
  [][/\ \A s \in Sids : LastPlayerSteps(s, TRUE)
     /\ \A g \in Gids : DeletedByLastPlayerOnly(g)]_vars

\* the same with the room, consumers and exchange looked at when they are
\* cleared, not again after the delete
LastPlayerClearsAndDeletes ==
  [][/\ \A s \in Sids : LastPlayerSteps(s, FALSE)
     /\ \A g \in Gids : DeletedByLastPlayerOnly(g)]_vars

\* what C16 says of the steps of clear_game(s) when other players remain
NonLastPlayerSteps(s) ==
  LET g == conn[s].gid
  IN  /\ (conn[s].pc = "clear" /\ conn'[s].pc = "save_rm") =>
           /\ bindings'[g] = bindings[g] \ {<<s, s>>, <<s, BROADCAST_KEY>>}
           /\ \A x \in Sids \ {s} : gr_gid'[x] = gr_gid[x]
           /\ UNCHANGED <<store, exchange, exDeletes, consumers, gr_ctags>>
      /\ (conn[s].pc = "save_rm" /\ conn'[s] = Idle) =>
           /\ store[g] # NoGame
           /\ s \in RangeOf(store[g].players)
           /\ store'[g] = [store[g] EXCEPT !.players = RemoveFirst(@, s)]
           /\ UNCHANGED <<bindings, gr_gid, exchange, exDeletes, consumers, gr_ctags>>

\* C16: the teardown of a player who leaves while another remains removes
\* only that player: the snapshot is saved with that player taken out of
\* players, the player's queue is unbound from both keys, and the exchange,
\* the snapshot's existence and the remaining player's registry record,
\* bindings and consumer stay as they are
C16_OnlyLeaverRemoved == [][\A s \in Sids : NonLastPlayerSteps(s)]_vars

\* the events of the step are the "start" events of game: BLACK to players[0],
\* WHITE to players[1]
ColourByPosition(evs, game) ==
  \A i \in 1..Len(evs) :
    /\ evs[i].name = "start"
    /\ i <= 2 /\ i <= Len(game.players)
    /\ evs[i].to = game.players[i]
    /\ evs[i].colour = (IF i = 1 THEN "BLACK" ELSE "WHITE")
    /\ evs[i].round = game.round

\* what C17 says of the steps that publish "start" events; with two set, a
\* round advance is only looked at when players holds two different connections
StartSteps(two) ==
  /\ \A s \in Sids :
       (conn[s].op = "accept" /\ conn[s].pc = "start" /\ conn'[s] = Idle) =>
         (Len(pub') = 2 /\ ColourByPosition(pub', conn[s].game))
  /\ \A g \in Gids :
       (/\ heor[g].pc = "start" /\ heor'[g].pc = "idle" /\ ~heor[g].game.finished
        /\ two => (Len(heor[g].game.players) = 2 /\ Cardinality(RangeOf(heor[g].game.players)) = 2)) =>
         /\ pub' # <<>>
         /\ ColourByPosition(pub', heor[g].game)
         /\ \A i \in 1..Len(pub') :
              sent[g][pub'[i].to] \in {"BLACK", "WHITE"} /\ sent[g][pub'[i].to] # pub'[i].colour

\* C17: in every "start" event the colour follows the position in players
\* (players[0] BLACK, players[1] WHITE), at accept_game and at each round
\* advance, and a player is sent in round r+1 the opposite of the colour it
\* was sent in round r
C17_ColourFollowsPosition == [][StartSteps(FALSE)]_vars

\* the same for round advances of two different players
ColourFollowsPositionOfTwo == [][StartSteps(TRUE)]_vars

\* C18: finished is monotone in the store: once a game's snapshot is
\* persisted with finished = true, no later write of any operation persists a
\* snapshot of that game with finished = false
C18_FinishedIsMonotone ==
  [][\A g \in Gids :
       (store[g] # NoGame /\ store[g].finished /\ store'[g] # NoGame) => store'[g].finished]_vars

\* the same for the writes of handle_end_of_round alone
FinishedKeptByRoundAdvance ==
  [][\A g \in Gids :
       (store[g] # NoGame /\ store[g].finished /\ store'[g] # NoGame /\ heor'[g] # heor[g]) =>
         store'[g].finished]_vars

\* C19: no "start" event of a game is published after a "matchEnded" event
\* of that game, however handle_end_of_round and handle_exit interleave
C19_NoStartAfterMatchEnded ==
  [][\A g \in Gids :
       ended[g] => \A i \in 1..Len(pub') : ~(pub'[i].name = "start" /\ pub'[i].gid = g)]_vars

\* C20: once the snapshot of a game was deleted by the last player's
\* teardown (which deletes the exchange first), no operation writes a snapshot
\* for that game id again
C20_NoWriteAfterDelete ==
  [][\A g \in Gids :
       (store[g] = NoGame /\ exDeletes[g] > 0) => store'[g] = NoGame]_vars

====
